---------------------------- MODULE Spec2Model ----------------------------
(***************************************************************************)
(* A model of the multi-band compressor (core/multiband_compressor.py) and *)
(* of the streaming engine that drives it (core/lpmd_audio_features.py).   *)
(*                                                                         *)
(* Numbers.  The program computes in float32.  The model computes in fixed *)
(* point: a linear quantity (sample, magnitude, gain, envelope,            *)
(* coefficient) v is the integer v * Unit, a level in dB is an integer     *)
(* count of steps of 20*log10(2)/2 = 3.01 dB, and every division truncates *)
(* toward zero.  A float NaN is the value NaN.  The analysis size is 4     *)
(* instead of 4096: it is the largest size whose real DFT has no           *)
(* irrational twiddle factor, so that rfft and irfft are computed exactly. *)
(***************************************************************************)
EXTENDS Integers, Sequences, FiniteSets, TLC

(***************************************************************************)
(* Bounds of the model.                                                    *)
(***************************************************************************)
MaxBatch == 2
MaxChannels == 2
MaxTime == 6
MaxOps == 2

(***************************************************************************)
(* Fixed point.                                                            *)
(***************************************************************************)
Unit == 64
NaN == 1000000
MinDb == -53

IsNaN(x) == x = NaN

Abs(x) == IF x < 0 THEN -x ELSE x

\* float division of a by b > 0, truncated toward zero
Quot(a, b) == IF a >= 0 THEN a \div b ELSE -((-a) \div b)

Pow2(n) == IF n <= 0 THEN 1 ELSE 2 ^ n

RECURSIVE SqrtSearch(_, _, _)
SqrtSearch(n, lo, hi) ==
    IF lo >= hi THEN lo
    ELSE LET mid == (lo + hi + 1) \div 2
         IN  IF mid * mid <= n THEN SqrtSearch(n, mid, hi)
                               ELSE SqrtSearch(n, lo, mid - 1)

\* floor of the square root of n >= 0
ISqrt(n) == SqrtSearch(n, 0, n)

\* the array f[lo], ..., f[hi] with every entry evaluated
Tabulate(f, lo, hi) ==
    IF lo > hi THEN <<>> ELSE (lo :> f[lo]) @@ [n \in lo + 1 .. hi |-> f[n]]

(***************************************************************************)
(* MultiBandCompressor: configuration.                                     *)
(***************************************************************************)
sample_rate == 44100
fft_size == 4
num_bands == fft_size \div 2 + 1
Bands == 0 .. num_bands - 1

\* torch.hann_window(4) = [0, 0.5, 1, 0.5], in units of 1/2
window == [n \in 0 .. fft_size - 1 |-> IF n = 0 THEN 0 ELSE IF n = 2 THEN 2 ELSE 1]

\* int(ms * sample_rate / 1000) for a time constant given in microseconds
TimeToSamples(us) == Quot(us * sample_rate, 1000000)

\* Unit * exp(-1/s) for s >= 1, by the series 1 - 1/s + 1/(2 s^2) - 1/(6 s^3)
ExpNegInv(s) == Quot(Unit * (6 * s * s * s - 6 * s * s + 3 * s - 1), 6 * s * s * s)

\* 1 - exp(-1/samples) if samples > 0 else 1.0
TimeToCoeff(us) ==
    LET samples == TimeToSamples(us)
    IN  IF samples > 0 THEN Unit - ExpNegInv(samples) ELSE Unit

(***************************************************************************)
(* _db_to_linear and _linear_to_db.                                        *)
(***************************************************************************)
\* 10^(db/20) = 2^(db/2) with db in 3.01 dB steps; sqrt(2) = 362/256
DbToLinear(db) ==
    IF IsNaN(db) THEN NaN
    ELSE LET q == db \div 2
             base == IF db % 2 = 0 THEN Unit ELSE Quot(Unit * 362, 256)
         IN  IF q >= 0 THEN base * Pow2(q) ELSE Quot(base, Pow2(-q))

\* the level of the smallest positive fixed-point value, 1/Unit = 2^(-6)
LowestDb == -12

\* a level whose linear value is above every number the model computes
HighestDb == 28

\* the first level d from db on whose next level is above `linear`
DbSearch(linear, db) ==
    CHOOSE d \in db .. HighestDb :
        /\ DbToLinear(d + 1) > linear
        /\ \A e \in db + 1 .. d : DbToLinear(e) <= linear

\* 20 * log10(clamp(linear, min=1e-8)): the largest step whose linear value is
\* at most `linear`; anything below the fixed-point resolution is the floor
LinearToDb(linear) ==
    IF IsNaN(linear) THEN NaN
    ELSE IF linear <= 0 THEN MinDb
    ELSE DbSearch(linear, LowestDb)

(***************************************************************************)
(* The state of one compressor instance, and what the last call did.       *)
(***************************************************************************)
VARIABLES
    hop_size,        \* self.hop_size
    attack_coeff,    \* self.attack_coeff
    release_coeff,   \* self.release_coeff
    threshold_db,    \* self.threshold_db, one value per band
    ratio,           \* self.ratio
    makeup_gain_db,  \* self.makeup_gain_db
    knee_width_db,   \* self.knee_width_db
    envelope,        \* self.envelope: <<>> is None, else [batch][channel][band]
    calls,           \* number of forward() calls made
    sets,            \* number of set_band_parameters() calls made
    last_op,         \* the operation that produced this state
    in_audio,        \* the block given to the last forward()
    out_audio,       \* the block it returned
    env_before,      \* self.envelope when the last forward() was entered
    env_start,       \* self.envelope when its frame loop was entered
    frame_starts,    \* the frame start offsets its loop visited, in order
    level_in,        \* input_level_db of the last _compute_gain_reduction call
    reduction_out,   \* what that call returned, one value per band
    follower_from,   \* the envelope given to the last _apply_attack_release
    smoothed_out,    \* what that call returned, one value per band
    curve_ops,       \* number of direct calls of the two methods
    set_args,        \* band_idx and the arguments given (not None) to
                     \* set_band_parameters, if it was the last call
    intermediates    \* what the last process_with_intermediates() captured

compVars == <<hop_size, attack_coeff, release_coeff, threshold_db, ratio,
              makeup_gain_db, knee_width_db, envelope, calls, sets, last_op,
              in_audio, out_audio, env_before, env_start, frame_starts,
              level_in, reduction_out, follower_from, smoothed_out, curve_ops,
              set_args, intermediates>>

\* set_args when the last call was not set_band_parameters
NoArgs == [band_idx |-> 0, given |-> {}, threshold_db |-> 0, ratio |-> 0,
           makeup_gain_db |-> 0, knee_width_db |-> 0]

\* intermediates when nothing was captured: the three entries are None
NoIntermediates == [captured |-> FALSE, fft_bands |-> <<>>,
                    gain_curve_db |-> <<>>, compressed_fft |-> <<>>]

\* the record of direct _compute_gain_reduction / _apply_attack_release calls
curveVars == <<level_in, reduction_out, follower_from, smoothed_out, curve_ops>>

(***************************************************************************)
(* _compute_gain_reduction, for one (batch, channel, bin) element.  `soft` *)
(* is the test knee_width_db.mean() > 0, which the code makes once for the *)
(* whole tensor.                                                           *)
(***************************************************************************)
SoftKneeEnabled(knee) ==
    LET RECURSIVE Sum(_)
        Sum(k) == IF k < 0 THEN 0 ELSE knee[k] + Sum(k - 1)
    IN  Sum(num_bands - 1) > 0

\* a curve whose slope above the threshold is 1/ratio instead of 1 - 1/ratio
ComputeGainReductionInverted(input_level_db, thr, r, knee, soft) ==
    IF input_level_db < thr THEN 0 ELSE Quot(input_level_db - thr, r)

ComputeGainReduction(input_level_db, thr, r, knee, soft) ==
    LET over_threshold == input_level_db - thr
        \* knee_start = thr - knee/2 and knee_end = thr + knee/2, doubled
        knee_region == /\ 2 * input_level_db >= 2 * thr - knee
                       /\ 2 * input_level_db <= 2 * thr + knee
        gain_reduction_hard ==
            IF input_level_db < thr THEN 0
            ELSE Quot(over_threshold * (r - 1), r)
        \* knee_factor = (level - knee_start) / knee = p / q, clamped to [0, 1]
        p == 2 * input_level_db - (2 * thr - knee)
        q == 2 * knee
        pc == IF p < 0 THEN 0 ELSE IF p > q THEN q ELSE p
        knee_gain ==
            IF knee = 0 THEN NaN   \* 0/0 at level = thr
            \* rounded down, so that a negative value stays negative
            ELSE (pc * pc * over_threshold * (r - 1)) \div (q * q * r)
    IN  IF soft
        THEN IF knee_region THEN knee_gain ELSE gain_reduction_hard
        ELSE gain_reduction_hard

(***************************************************************************)
(* _apply_attack_release, for one element: the new envelope value.  The    *)
(* smoothed reduction returned by the code is -_linear_to_db of it.        *)
(***************************************************************************)
NewEnvelope(gain_reduction_db, env) ==
    LET target_gain_linear ==
            IF IsNaN(gain_reduction_db) THEN NaN ELSE DbToLinear(-gain_reduction_db)
    IN  IF IsNaN(target_gain_linear) \/ IsNaN(env) THEN NaN
        ELSE LET coeff == IF target_gain_linear < env THEN attack_coeff
                                                      ELSE release_coeff
             IN  env + Quot(coeff * (target_gain_linear - env), Unit)

SmoothedGainReduction(new_envelope) ==
    IF IsNaN(new_envelope) THEN NaN ELSE -LinearToDb(new_envelope)

(***************************************************************************)
(* torch.fft.rfft and irfft of size 4, on complex numbers <<re, im>>.      *)
(***************************************************************************)
Rfft(x) ==
    (0 :> <<x[0] + x[1] + x[2] + x[3], 0>>)
    @@ (1 :> <<x[0] - x[2], x[3] - x[1]>>)
    @@ (2 :> <<x[0] - x[1] + x[2] - x[3], 0>>)

Irfft(X) ==
    IF \E k \in Bands : IsNaN(X[k][1]) \/ IsNaN(X[k][2])
    THEN Tabulate([n \in 0 .. fft_size - 1 |-> NaN], 0, fft_size - 1)
    ELSE (0 :> Quot(X[0][1] + 2 * X[1][1] + X[2][1], 4))
         @@ (1 :> Quot(X[0][1] - 2 * X[1][2] - X[2][1], 4))
         @@ (2 :> Quot(X[0][1] - 2 * X[1][1] + X[2][1], 4))
         @@ (3 :> Quot(X[0][1] + 2 * X[1][2] - X[2][1], 4))

\* torch.abs of a complex number
CAbs(z) == IF z[2] = 0 THEN Abs(z[1]) ELSE ISqrt(z[1] * z[1] + z[2] * z[2])

\* m * exp(1j * angle(z)), a being abs(z); angle(0) = 0
WithPhase(m, z, a) ==
    IF IsNaN(m) THEN <<NaN, NaN>>
    ELSE IF a = 0 THEN <<m, 0>>
    ELSE <<Quot(m * z[1], a), Quot(m * z[2], a)>>

(***************************************************************************)
(* The body of forward()'s frame loop for one (batch, channel, bin)        *)
(* element: z is fft[b, c, k], env is self.envelope[b, c, k], soft the     *)
(* tensor-wide knee test.                                                  *)
(***************************************************************************)
FrameBandAt(z, magnitude, magnitude_db, env, k, soft) ==
    LET gain_reduction_db ==
            ComputeGainReduction(magnitude_db, threshold_db[k], ratio[k],
                                 knee_width_db[k], soft)
        new_envelope == NewEnvelope(gain_reduction_db, env)
        smoothed_gain_reduction_db == SmoothedGainReduction(new_envelope)
        compressed_magnitude_db ==
            IF IsNaN(smoothed_gain_reduction_db) THEN NaN
            ELSE magnitude_db - smoothed_gain_reduction_db + makeup_gain_db[k]
        compressed_magnitude == DbToLinear(compressed_magnitude_db)
    IN  [envelope |-> new_envelope,
         magnitude |-> magnitude,
         smoothed |-> smoothed_gain_reduction_db,
         compressed_fft |-> WithPhase(compressed_magnitude, z, magnitude)]

FrameBandMag(z, magnitude, env, k, soft) ==
    FrameBandAt(z, magnitude, LinearToDb(magnitude), env, k, soft)

FrameBand(z, env, k, soft) == FrameBandMag(z, CAbs(z), env, k, soft)

(***************************************************************************)
(* The loop body for one (batch, channel) row: x is audio[b, c, start:end] *)
(* and env the row's envelope.                                             *)
(***************************************************************************)
WindowAudio(x) ==
    Tabulate([n \in 0 .. fft_size - 1 |-> Quot(x[n] * window[n], 2)], 0, fft_size - 1)

FrameBands(fft, env, soft) ==
    Tabulate([k \in Bands |-> FrameBand(fft[k], env[k], k, soft)], 0, num_bands - 1)

\* compressed_audio * window, the term the overlap-add accumulates
WindowedOutput(compressed_audio) ==
    Tabulate([n \in 0 .. fft_size - 1 |->
                IF IsNaN(compressed_audio[n]) THEN NaN
                ELSE Quot(compressed_audio[n] * window[n], 2)], 0, fft_size - 1)

FrameRowOf(bands) ==
    [envelope |-> Tabulate([k \in Bands |-> bands[k].envelope], 0, num_bands - 1),
     magnitude |-> Tabulate([k \in Bands |-> bands[k].magnitude], 0, num_bands - 1),
     smoothed |-> Tabulate([k \in Bands |-> bands[k].smoothed], 0, num_bands - 1),
     compressed_fft |->
        Tabulate([k \in Bands |-> bands[k].compressed_fft], 0, num_bands - 1),
     windowed |->
        WindowedOutput(Irfft(
            Tabulate([k \in Bands |-> bands[k].compressed_fft], 0, num_bands - 1)))]

FrameRow(x, env) ==
    FrameRowOf(FrameBands(Rfft(WindowAudio(x)), env, SoftKneeEnabled(knee_width_db)))

(***************************************************************************)
(* forward().  A block is [batch][channel][time], batch and channel from 1 *)
(* and time from 0; every block has at least one batch and one channel.    *)
(***************************************************************************)
BatchSize(audio) == Len(audio)
NumChannels(audio) == Len(audio[1])
TimeLength(audio) == Cardinality(DOMAIN audio[1][1])

\* the tensor of shape (B, C, T) whose entries are f[b][c][n]
Tensor(f, B, C, T) ==
    Tabulate([b \in 1 .. B |->
        Tabulate([c \in 1 .. C |-> Tabulate(f[b][c], 0, T - 1)], 1, C)], 1, B)

\* pad_length = (hop - (time_length % hop)) % hop
PadLength(time_length, hop) == (hop - (time_length % hop)) % hop

\* F.pad(audio, (0, pad_length))
Pad(audio, pad_length) ==
    LET T == TimeLength(audio)
    IN  Tensor([b \in DOMAIN audio |-> [c \in DOMAIN audio[b] |->
                  [n \in 0 .. T + pad_length - 1 |->
                      IF n < T THEN audio[b][c][n] ELSE 0]]],
               BatchSize(audio), NumChannels(audio), T + pad_length)

\* torch.zeros_like(audio)
ZerosLike(audio) ==
    Tensor([b \in DOMAIN audio |-> [c \in DOMAIN audio[b] |->
              [n \in DOMAIN audio[b][c] |-> 0]]],
           BatchSize(audio), NumChannels(audio), TimeLength(audio))

\* torch.zeros(batch_size, num_channels, num_bands)
FreshEnvelope(batch_size, num_channels) ==
    Tensor([b \in 1 .. batch_size |-> [c \in 1 .. num_channels |->
              [k \in Bands |-> 0]]], batch_size, num_channels, num_bands)

\* self.envelope is None or its shape[0] or shape[1] differs
NeedsAllocation(env, batch_size, num_channels) ==
    \/ env = <<>>
    \/ Len(env) # batch_size
    \/ Len(env[1]) # num_channels

\* a forward() that allocates the envelope on every call
EnvelopeAlwaysFresh(env, batch_size, num_channels) ==
    FreshEnvelope(batch_size, num_channels)

\* the envelope the frame loop starts from
EnvelopeFor(env, batch_size, num_channels) ==
    IF NeedsAllocation(env, batch_size, num_channels)
    THEN FreshEnvelope(batch_size, num_channels)
    ELSE env

\* a frame loop that stops one start early: range(0, padded_length - fft_size, hop)
RECURSIVE FrameRangeShort(_, _, _)
FrameRangeShort(start, padded_length, hop) ==
    IF start < padded_length - fft_size
    THEN <<start>> \o FrameRangeShort(start + hop, padded_length, hop)
    ELSE <<>>

\* range(0, padded_length - fft_size + 1, hop)
RECURSIVE FrameRange(_, _, _)
FrameRange(start, padded_length, hop) ==
    IF start < padded_length - fft_size + 1
    THEN <<start>> \o FrameRange(start + hop, padded_length, hop)
    ELSE <<>>

AddF(a, b) == IF IsNaN(a) \/ IsNaN(b) THEN NaN ELSE a + b

\* audio[b, c, start:end]
Slice(row, start) ==
    Tabulate([n \in 0 .. fft_size - 1 |-> row[start + n]], 0, fft_size - 1)

\* the loop body for every (batch, channel) row at one frame start
FrameRows(audio, env, start) ==
    Tabulate([b \in DOMAIN audio |->
        Tabulate([c \in DOMAIN audio[b] |->
            FrameRow(Slice(audio[b][c], start), env[b][c])], 1, NumChannels(audio))],
        1, BatchSize(audio))

\* self.envelope.copy_(new_envelope) and output[:, :, start:end] += ...
FrameUpdate(st, rows, start, B, C, T) ==
    [envelope |-> Tensor([b \in 1 .. B |-> [c \in 1 .. C |-> rows[b][c].envelope]],
                         B, C, num_bands),
     output |-> Tensor([b \in 1 .. B |-> [c \in 1 .. C |-> [n \in 0 .. T - 1 |->
                          IF n >= start /\ n < start + fft_size
                          THEN AddF(st.output[b][c][n], rows[b][c].windowed[n - start])
                          ELSE st.output[b][c][n]]]], B, C, T)]

\* one pass of the loop: st = [envelope, output] before the frame
FrameStep(audio, st, start) ==
    FrameUpdate(st, FrameRows(audio, st.envelope, start), start,
                BatchSize(audio), NumChannels(audio), TimeLength(audio))

\* the loop; each pass starts from the evaluated result s of the pass before
RECURSIVE FrameLoop(_, _, _, _)
FrameLoop(audio, st, starts, i) ==
    IF i > Len(starts) THEN st
    ELSE CHOOSE final \in
            {FrameLoop(audio, FrameStep(audio, s, starts[i]), starts, i + 1) :
                s \in {st}} : TRUE

\* a forward() that returns the padded buffer
RemovePaddingNever(output, pad_length) == output

\* output[:, :, :-pad_length] if pad_length > 0
RemovePadding(output, pad_length) ==
    IF pad_length > 0
    THEN Tensor(output, BatchSize(output), NumChannels(output),
                TimeLength(output) - pad_length)
    ELSE output

\* what forward() returns and leaves behind, `final` being the loop's result
ForwardResult(final, pad_length, env0, starts) ==
    [output |-> RemovePadding(final.output, pad_length),
     envelope |-> final.envelope,
     env_start |-> env0,
     frame_starts |-> starts]

ForwardLoop(audio, pad_length, env0, starts) ==
    ForwardResult(FrameLoop(audio, [envelope |-> env0, output |-> ZerosLike(audio)],
                            starts, 1),
                  pad_length, env0, starts)

ForwardPadded(audio, pad_length, env) ==
    ForwardLoop(audio, pad_length,
                EnvelopeFor(env, BatchSize(audio), NumChannels(audio)),
                FrameRange(0, TimeLength(audio), hop_size))

ForwardPad(audio, pad_length, env) ==
    ForwardPadded(IF pad_length > 0 THEN Pad(audio, pad_length) ELSE audio,
                  pad_length, env)

Forward(audio, env) ==
    ForwardPad(audio, PadLength(TimeLength(audio), hop_size), env)

(***************************************************************************)
(* The blocks the model feeds to forward(): a shape and a waveform.  Rows  *)
(* differ in amplitude so that no two (batch, channel) rows of a block     *)
(* carry the same signal.                                                  *)
(***************************************************************************)
Waveforms == {"alt", "step"}

RowAmplitude(b, c) == Quot(Unit, Pow2(2 * (b - 1) + (c - 1)))

Sample(wave, b, c, n) ==
    CASE wave = "alt" -> IF n % 2 = 0 THEN RowAmplitude(b, c) ELSE -RowAmplitude(b, c)
      [] wave = "step" -> IF n < 2 THEN 0 ELSE RowAmplitude(b, c)

Block(batch_size, num_channels, time_length, wave) ==
    Tensor([b \in 1 .. batch_size |-> [c \in 1 .. num_channels |->
              [n \in 0 .. time_length - 1 |-> Sample(wave, b, c, n)]]],
           batch_size, num_channels, time_length)

(***************************************************************************)
(* __init__: every band gets the same default; the envelope is None.       *)
(***************************************************************************)
HopSizes == 1 .. fft_size
Thresholds == {-4}
Ratios == {1, 4}
TimeConstants == {<<0, 0>>, <<30, 50>>}

CompInit ==
    /\ hop_size \in HopSizes
    /\ \E tc \in TimeConstants :
          /\ attack_coeff = TimeToCoeff(tc[1])
          /\ release_coeff = TimeToCoeff(tc[2])
    /\ \E t \in Thresholds : threshold_db = [k \in Bands |-> t]
    /\ \E r \in Ratios : ratio = [k \in Bands |-> r]
    /\ makeup_gain_db = [k \in Bands |-> 0]
    /\ knee_width_db = [k \in Bands |-> 0]
    /\ envelope = <<>>
    /\ calls = 0
    /\ sets = 0
    /\ last_op = "init"
    /\ in_audio = <<>>
    /\ out_audio = <<>>
    /\ env_before = <<>>
    /\ env_start = <<>>
    /\ frame_starts = <<>>
    /\ level_in = 0
    /\ reduction_out = <<>>
    /\ follower_from = <<>>
    /\ smoothed_out = <<>>
    /\ curve_ops = 0
    /\ set_args = NoArgs
    /\ intermediates = NoIntermediates

(***************************************************************************)
(* compressor(audio)                                                       *)
(***************************************************************************)
ForwardCall ==
    /\ calls + sets < MaxOps
    /\ \E batch_size \in 1 .. MaxBatch, num_channels \in 1 .. MaxChannels,
          time_length \in 0 .. MaxTime, wave \in Waveforms :
          \E audio \in {Block(batch_size, num_channels, time_length, wave)} :
          \E r \in {Forward(audio, envelope)} :
              /\ in_audio' = audio
              /\ out_audio' = r.output
              /\ envelope' = r.envelope
              /\ env_before' = envelope
              /\ env_start' = r.env_start
              /\ frame_starts' = r.frame_starts
    /\ calls' = calls + 1
    /\ last_op' = "forward"
    /\ set_args' = NoArgs
    /\ UNCHANGED <<hop_size, attack_coeff, release_coeff, threshold_db, ratio,
                   makeup_gain_db, knee_width_db, sets>>
    /\ UNCHANGED <<curveVars, intermediates>>

(***************************************************************************)
(* process_with_intermediates(audio): the same padding, envelope test,     *)
(* frame loop and trimming, and after the overlap-add of a frame the       *)
(* capture of row [0, 0] of magnitude, smoothed_gain_reduction_db and      *)
(* compressed_fft_chunk while fft_bands is still None.                     *)
(***************************************************************************)
\* a capture that is overwritten by every frame
CaptureLatest(captured, row) ==
    [captured |-> TRUE, fft_bands |-> row.magnitude,
     gain_curve_db |-> row.smoothed, compressed_fft |-> row.compressed_fft]

\* if fft_bands is None: save first-batch first-channel intermediates
Capture(captured, row) ==
    IF captured.captured THEN captured
    ELSE [captured |-> TRUE, fft_bands |-> row.magnitude,
          gain_curve_db |-> row.smoothed, compressed_fft |-> row.compressed_fft]

IntermediatesUpdate(updated, captured, rows) ==
    [envelope |-> updated.envelope,
     output |-> updated.output,
     intermediates |-> Capture(captured, rows[1][1])]

IntermediatesRows(audio, st, rows, start) ==
    IntermediatesUpdate(FrameUpdate(st, rows, start, BatchSize(audio),
                                    NumChannels(audio), TimeLength(audio)),
                        st.intermediates, rows)

\* one pass of the loop: st = [envelope, output, intermediates] before it
IntermediatesStep(audio, st, start) ==
    IntermediatesRows(audio, st, FrameRows(audio, st.envelope, start), start)

RECURSIVE IntermediatesLoop(_, _, _, _)
IntermediatesLoop(audio, st, starts, i) ==
    IF i > Len(starts) THEN st
    ELSE CHOOSE final \in
            {IntermediatesLoop(audio, IntermediatesStep(audio, s, starts[i]),
                               starts, i + 1) : s \in {st}} : TRUE

IntermediatesResult(final, pad_length, env0, starts) ==
    [output |-> IF pad_length > 0
                THEN Tensor(final.output, BatchSize(final.output),
                            NumChannels(final.output),
                            TimeLength(final.output) - pad_length)
                ELSE final.output,
     envelope |-> final.envelope,
     env_start |-> env0,
     frame_starts |-> starts,
     intermediates |-> final.intermediates]

IntermediatesFrames(audio, pad_length, env0, starts) ==
    IntermediatesResult(
        IntermediatesLoop(audio,
                          [envelope |-> env0, output |-> ZerosLike(audio),
                           intermediates |-> NoIntermediates],
                          starts, 1),
        pad_length, env0, starts)

IntermediatesPadded(audio, pad_length, env) ==
    IntermediatesFrames(
        audio, pad_length,
        IF NeedsAllocation(env, BatchSize(audio), NumChannels(audio))
        THEN FreshEnvelope(BatchSize(audio), NumChannels(audio))
        ELSE env,
        FrameRange(0, TimeLength(audio), hop_size))

IntermediatesPad(audio, pad_length, env) ==
    IntermediatesPadded(IF pad_length > 0 THEN Pad(audio, pad_length) ELSE audio,
                        pad_length, env)

ProcessWithIntermediates(audio, env) ==
    IntermediatesPad(audio, PadLength(TimeLength(audio), hop_size), env)

ProcessWithIntermediatesCall ==
    /\ calls + sets < MaxOps
    /\ \E batch_size \in 1 .. MaxBatch, num_channels \in 1 .. MaxChannels,
          time_length \in 0 .. MaxTime, wave \in Waveforms :
          \E audio \in {Block(batch_size, num_channels, time_length, wave)} :
          \E r \in {ProcessWithIntermediates(audio, envelope)} :
              /\ in_audio' = audio
              /\ out_audio' = r.output
              /\ envelope' = r.envelope
              /\ env_before' = envelope
              /\ env_start' = r.env_start
              /\ frame_starts' = r.frame_starts
              /\ intermediates' = r.intermediates
    /\ calls' = calls + 1
    /\ last_op' = "process_with_intermediates"
    /\ set_args' = NoArgs
    /\ UNCHANGED <<hop_size, attack_coeff, release_coeff, threshold_db, ratio,
                   makeup_gain_db, knee_width_db, sets>>
    /\ UNCHANGED curveVars

(***************************************************************************)
(* set_band_parameters(band_idx, threshold_db, ratio, makeup_gain_db,      *)
(* knee_width_db): an argument that is None leaves its tensor alone.       *)
(* tensor.data[i] = v accepts -len <= i < len, a negative i counting from  *)
(* the end, and raises IndexError for any other i.                         *)
(***************************************************************************)
ValidIndex(i) == -num_bands <= i /\ i < num_bands

NormIndex(i) == IF i < 0 THEN i + num_bands ELSE i

\* an assignment that writes the value to every band: tensor.data[:] = value
SetItemAll(tensor, i, value) == [k \in Bands |-> value]

SetItem(tensor, i, value) == [tensor EXCEPT ![NormIndex(i)] = value]

BandIndexInputs == -1 .. num_bands
ThresholdInputs == {-8}
RatioInputs == {2}
MakeupInputs == {2}
KneeInputs == {2}

SetBandParametersCall ==
    /\ calls + sets < MaxOps
    /\ \E band_idx \in BandIndexInputs,
          has_threshold \in BOOLEAN, has_ratio \in BOOLEAN,
          has_makeup \in BOOLEAN, has_knee \in BOOLEAN,
          new_threshold \in ThresholdInputs, new_ratio \in RatioInputs,
          new_makeup \in MakeupInputs, new_knee \in KneeInputs :
          /\ set_args' = [band_idx |-> band_idx,
                          given |-> {n \in {"threshold_db"} : has_threshold}
                                    \cup {n \in {"ratio"} : has_ratio}
                                    \cup {n \in {"makeup_gain_db"} : has_makeup}
                                    \cup {n \in {"knee_width_db"} : has_knee},
                          threshold_db |-> IF has_threshold THEN new_threshold ELSE 0,
                          ratio |-> IF has_ratio THEN new_ratio ELSE 0,
                          makeup_gain_db |-> IF has_makeup THEN new_makeup ELSE 0,
                          knee_width_db |-> IF has_knee THEN new_knee ELSE 0]
          /\ IF (has_threshold \/ has_ratio \/ has_makeup \/ has_knee)
                /\ ~ValidIndex(band_idx)
             THEN \* the first assignment raises IndexError
                  /\ last_op' = "set_band_parameters: IndexError"
                  /\ UNCHANGED <<threshold_db, ratio, makeup_gain_db, knee_width_db>>
             ELSE /\ last_op' = "set_band_parameters"
                  /\ threshold_db' = IF has_threshold
                                     THEN SetItem(threshold_db, band_idx, new_threshold)
                                     ELSE threshold_db
                  /\ ratio' = IF has_ratio THEN SetItem(ratio, band_idx, new_ratio)
                                           ELSE ratio
                  /\ makeup_gain_db' = IF has_makeup
                                       THEN SetItem(makeup_gain_db, band_idx, new_makeup)
                                       ELSE makeup_gain_db
                  /\ knee_width_db' = IF has_knee
                                      THEN SetItem(knee_width_db, band_idx, new_knee)
                                      ELSE knee_width_db
    /\ sets' = sets + 1
    /\ UNCHANGED <<hop_size, attack_coeff, release_coeff, envelope, calls,
                   in_audio, out_audio, env_before, env_start, frame_starts>>
    /\ UNCHANGED <<curveVars, intermediates>>

(***************************************************************************)
(* _compute_gain_reduction and _apply_attack_release called as forward()   *)
(* calls them for one frame of a (1, 1, T) block: the level is the same in *)
(* every band, the parameters are the compressor's, and the follower       *)
(* works on self.envelope and writes the new envelope back to it.          *)
(***************************************************************************)
Levels == -8 .. 0
CurveRatios == {1, 2, 4}
CurveKnees == {0, 8}
EnvelopeStarts == {0, Unit \div 2, Unit}

\* a compressor whose bands were given ratios and knee widths one by one, and
\* whose envelope earlier frames of a (1, 1, T) block have left at some value
CurveInit ==
    /\ hop_size = 1
    /\ \E tc \in TimeConstants :
          /\ attack_coeff = TimeToCoeff(tc[1])
          /\ release_coeff = TimeToCoeff(tc[2])
    /\ \E t \in Thresholds : threshold_db = [k \in Bands |-> t]
    /\ ratio \in [Bands -> CurveRatios]
    /\ makeup_gain_db = [k \in Bands |-> 0]
    /\ knee_width_db \in [Bands -> CurveKnees]
    /\ \E e \in EnvelopeStarts : envelope = <<<<[k \in Bands |-> e]>>>>
    /\ calls = 0
    /\ sets = 0
    /\ last_op = "init"
    /\ in_audio = <<>>
    /\ out_audio = <<>>
    /\ env_before = <<>>
    /\ env_start = <<>>
    /\ frame_starts = <<>>
    /\ level_in = 0
    /\ reduction_out = <<>>
    /\ follower_from = <<>>
    /\ smoothed_out = <<>>
    /\ curve_ops = 0
    /\ set_args = NoArgs
    /\ intermediates = NoIntermediates

\* gain_reduction_db = self._compute_gain_reduction(magnitude_db, ...)
ComputeGainReductionCall ==
    /\ curve_ops < MaxOps
    /\ \E input_level_db \in Levels :
          /\ level_in' = input_level_db
          /\ reduction_out' =
                [k \in Bands |->
                    ComputeGainReduction(input_level_db, threshold_db[k], ratio[k],
                                         knee_width_db[k],
                                         SoftKneeEnabled(knee_width_db))]
    /\ curve_ops' = curve_ops + 1
    /\ last_op' = "_compute_gain_reduction"
    /\ UNCHANGED <<hop_size, attack_coeff, release_coeff, threshold_db, ratio,
                   makeup_gain_db, knee_width_db, envelope, calls, sets,
                   in_audio, out_audio, env_before, env_start, frame_starts,
                   follower_from, smoothed_out, set_args, intermediates>>

\* self._apply_attack_release(gain_reduction_db, self.envelope)
ApplyAttackReleaseCall ==
    /\ curve_ops < MaxOps
    /\ reduction_out # <<>>
    /\ follower_from' = envelope[1][1]
    /\ \E new_envelope \in {[k \in Bands |->
                                NewEnvelope(reduction_out[k], envelope[1][1][k])]} :
          /\ envelope' = <<<<new_envelope>>>>
          /\ smoothed_out' = [k \in Bands |-> SmoothedGainReduction(new_envelope[k])]
    /\ curve_ops' = curve_ops + 1
    /\ last_op' = "_apply_attack_release"
    /\ UNCHANGED <<hop_size, attack_coeff, release_coeff, threshold_db, ratio,
                   makeup_gain_db, knee_width_db, calls, sets,
                   in_audio, out_audio, env_before, env_start, frame_starts,
                   level_in, reduction_out, set_args, intermediates>>

(***************************************************************************)
(* LPMDAudioEngine.  One controlling thread calls start_audio_stream,      *)
(* stop_audio_stream and set_processor, one after the other; every         *)
(* start that finds the flag down launches a thread running                *)
(* _simulate_streaming; a consumer takes blocks off audio_queue.           *)
(***************************************************************************)
MaxThreads == 2
MaxBlocks == 3
MaxCtlOps == 4
SourceLen == 3

Threads == 1 .. MaxThreads
Processors == {"A", "B"}
None == "None"

\* queue.Queue(): maxsize 0, which the queue module reads as unbounded
queue_maxsize == 0

VARIABLES
    block_size,         \* self.block_size
    is_streaming,       \* self.is_streaming
    current_processor,  \* self.current_processor
    audio_queue,        \* self.audio_queue, oldest block first
    stream_thread,      \* self.stream_thread; 0 while the attribute is not set
    threads,            \* every thread launched: its place in the loop and locals
    n_threads,          \* number of threads launched
    ctl_pc,             \* the controlling thread: "idle", or "join" inside stop
    ctl_ops,            \* number of controller calls made
    ctl_call,           \* the controller call made last
    starts,             \* number of start_audio_stream() calls made
    stops,              \* number of stop_audio_stream() calls that returned
    last_join,          \* how the last join ended
    stop_report,        \* what the last stop_audio_stream() told its caller
    n_read,             \* number of blocks read from the source, by all threads
    consumed,           \* the blocks the consumer took, in order
    last_get            \* what the consumer's last get(timeout) gave

streamVars == <<block_size, is_streaming, current_processor, audio_queue,
                stream_thread, threads, n_threads, ctl_pc, ctl_ops, ctl_call, starts,
                stops, last_join, stop_report, n_read, consumed, last_get>>

(***************************************************************************)
(* A MultiBandCompressor(sample_rate, fft_size, hop_size) call with        *)
(* arguments of the caller's choice, and get_frequency_range on what it    *)
(* built.                                                                  *)
(***************************************************************************)
VARIABLES
    built,       \* the arguments of the last such constructor call, and how
                 \* it ended
    range_call   \* the last get_frequency_range(band_idx) on that instance

apiVars == <<built, range_call>>

(***************************************************************************)
(* LPMDExecutor: the cells in the order the dict holds them, and what the  *)
(* last method call did.                                                   *)
(***************************************************************************)
VARIABLES
    cells,             \* self.cells: records [id, dependencies, executed]
    global_namespace,  \* self.global_namespace: the ids of the cells whose
                       \* bindings it holds
    execution_order,   \* self.execution_order
    n_files,           \* number of parse_lpmd_file() calls made
    exec_call,         \* the last method called
    exec_ret,          \* what it returned, or "raised"
    started,           \* the cells the last execute_all() passed to
                       \* execute_cell, in order
    raised_in,         \* the cells whose code raised in it
    cells_before,      \* self.cells when the last call was entered
    namespace_before,  \* self.global_namespace then
    order_before       \* self.execution_order then

execVars == <<cells, global_namespace, execution_order, n_files, exec_call,
              exec_ret, started, raised_in, cells_before, namespace_before,
              order_before>>

vars == <<compVars, streamVars, apiVars, execVars>>

\* self.test_audio: sample i of the source is the number i
test_audio == [i \in 0 .. SourceLen - 1 |-> i]

\* test_audio[from:to], as Python slices: both ends clipped to the length
RECURSIVE SliceOf(_, _)
SliceOf(from, to) ==
    IF from >= to \/ from >= SourceLen THEN <<>>
    ELSE <<test_audio[from]>> \o SliceOf(from + 1, to)

\* a thread not yet created; n_blocks counts the blocks the thread has read,
\* cancelled records that stop_audio_stream() was called while it was alive
Unborn == [pc |-> "unborn", pos |-> 0, chunk |-> <<>>, seq |-> 0,
           tested |-> None, callee |-> None, by |-> None, error |-> None,
           n_blocks |-> 0, cancelled |-> FALSE]

Alive(t) == threads[t].pc \notin {"unborn", "done", "failed"}

StreamInit ==
    /\ block_size \in 1 .. SourceLen
    /\ is_streaming = FALSE
    /\ current_processor = None
    /\ audio_queue = <<>>
    /\ stream_thread = 0
    /\ threads = [t \in Threads |-> Unborn]
    /\ n_threads = 0
    /\ ctl_pc = "idle"
    /\ ctl_ops = 0
    /\ ctl_call = None
    /\ starts = 0
    /\ stops = 0
    /\ last_join = None
    /\ stop_report = None
    /\ n_read = 0
    /\ consumed = <<>>
    /\ last_get = None

(***************************************************************************)
(* start_audio_stream                                                      *)
(***************************************************************************)
\* a start that does not test the flag
StartLaunchesAlways == TRUE

\* if not self.is_streaming
StartLaunches == ~is_streaming

StartAudioStream ==
    /\ ctl_pc = "idle"
    /\ ctl_ops < MaxCtlOps
    /\ ctl_ops' = ctl_ops + 1
    /\ ctl_call' = "start"
    /\ starts' = starts + 1
    /\ IF StartLaunches
       THEN /\ n_threads < MaxThreads
            /\ is_streaming' = TRUE
            /\ n_threads' = n_threads + 1
            /\ stream_thread' = n_threads + 1
            /\ threads' = [threads EXCEPT ![n_threads + 1].pc = "loop"]
       ELSE UNCHANGED <<is_streaming, n_threads, stream_thread, threads>>
    /\ UNCHANGED <<block_size, current_processor, audio_queue, ctl_pc, stops,
                   last_join, stop_report, n_read, consumed, last_get>>
    /\ UNCHANGED <<compVars, apiVars, execVars>>

(***************************************************************************)
(* stop_audio_stream: the flag goes down, then join(timeout=1.0) on the    *)
(* thread of the last start, if there was one.                             *)
(***************************************************************************)
\* print("Audio stream stopped"), return None: the one outcome stop has
StopReport == "Audio stream stopped"

StopAudioStream ==
    /\ ctl_pc = "idle"
    /\ ctl_ops < MaxCtlOps
    /\ ctl_ops' = ctl_ops + 1
    /\ ctl_call' = "stop"
    /\ is_streaming' = FALSE
    /\ IF stream_thread # 0
       THEN /\ ctl_pc' = "join"
            /\ UNCHANGED <<stops, last_join, stop_report>>
       ELSE /\ stops' = stops + 1
            /\ last_join' = "no thread"
            /\ stop_report' = StopReport
            /\ UNCHANGED ctl_pc
    /\ threads' = [t \in Threads |->
                      IF Alive(t) THEN [threads[t] EXCEPT !.cancelled = TRUE]
                                  ELSE threads[t]]
    /\ UNCHANGED <<block_size, current_processor, audio_queue, stream_thread,
                   n_threads, starts, n_read, consumed, last_get>>
    /\ UNCHANGED <<compVars, apiVars, execVars>>

\* join returns because the thread has ended
JoinReturns ==
    /\ ctl_pc = "join"
    /\ ~Alive(stream_thread)
    /\ ctl_pc' = "idle"
    /\ stops' = stops + 1
    /\ last_join' = "joined"
    /\ stop_report' = StopReport
    /\ UNCHANGED <<block_size, is_streaming, current_processor, audio_queue,
                   stream_thread, threads, n_threads, ctl_ops, ctl_call, starts, n_read,
                   consumed, last_get>>
    /\ UNCHANGED <<compVars, apiVars, execVars>>

\* a join that waits for the thread however long it takes
JoinUnbounded == FALSE

\* join(timeout=1.0): the wait has a bound
JoinBounded == TRUE

\* join returns after its second while the thread is still inside a
\* processor call or inside time.sleep
JoinTimesOut ==
    /\ ctl_pc = "join"
    /\ JoinBounded
    /\ threads[stream_thread].pc \in {"in_call", "sleep"}
    /\ ctl_pc' = "idle"
    /\ stops' = stops + 1
    /\ last_join' = "timeout"
    /\ stop_report' = StopReport
    /\ UNCHANGED <<block_size, is_streaming, current_processor, audio_queue,
                   stream_thread, threads, n_threads, ctl_ops, ctl_call, starts, n_read,
                   consumed, last_get>>
    /\ UNCHANGED <<compVars, apiVars, execVars>>

(***************************************************************************)
(* set_processor                                                           *)
(***************************************************************************)
SetProcessor ==
    /\ ctl_pc = "idle"
    /\ ctl_ops < MaxCtlOps
    /\ ctl_ops' = ctl_ops + 1
    /\ ctl_call' = "set_processor"
    /\ \E processor_func \in Processors \cup {None} :
          current_processor' = processor_func
    /\ UNCHANGED <<block_size, is_streaming, audio_queue, stream_thread, threads,
                   n_threads, ctl_pc, starts, stops, last_join, stop_report, n_read, consumed,
                   last_get>>
    /\ UNCHANGED <<compVars, apiVars, execVars>>

(***************************************************************************)
(* _simulate_streaming, one step at a time.  pc "loop" is the while test;  *)
(* "test" the statement `if self.current_processor:`; "call" the           *)
(* evaluation of self.current_processor in the call expression; "in_call"  *)
(* the call in progress; "put" the queue put; "sleep" the time.sleep.      *)
(***************************************************************************)
\* chunk = self.test_audio[pos:pos + self.block_size], wrapped when short
NextChunk(pos) ==
    LET chunk == SliceOf(pos, pos + block_size)
    IN  IF Len(chunk) < block_size
        THEN chunk \o SliceOf(0, block_size - Len(chunk))
        ELSE chunk

\* a loop that restarts the source at 0 after a wrapped block
NextPosRestart(pos) ==
    LET chunk == SliceOf(pos, pos + block_size)
    IN  IF Len(chunk) < block_size THEN 0 ELSE pos + block_size

\* pos = remaining after a wrapped block, pos += self.block_size otherwise
NextPos(pos) ==
    LET chunk == SliceOf(pos, pos + block_size)
    IN  IF Len(chunk) < block_size THEN block_size - Len(chunk)
                                   ELSE pos + block_size

\* while self.is_streaming: false
LoopExit(t) ==
    /\ threads[t].pc = "loop"
    /\ ~is_streaming
    /\ threads' = [threads EXCEPT ![t].pc = "done"]
    /\ UNCHANGED <<block_size, is_streaming, current_processor, audio_queue,
                   stream_thread, n_threads, ctl_pc, ctl_ops, ctl_call, starts, stops,
                   last_join, stop_report, n_read, consumed, last_get>>
    /\ UNCHANGED <<compVars, apiVars, execVars>>

\* while self.is_streaming: true, and the chunk is read
LoopRead(t) ==
    /\ threads[t].pc = "loop"
    /\ is_streaming
    /\ n_read < MaxBlocks
    /\ n_read' = n_read + 1
    /\ threads' = [threads EXCEPT ![t].pc = "test",
                                  ![t].chunk = NextChunk(threads[t].pos),
                                  ![t].pos = NextPos(threads[t].pos),
                                  ![t].seq = n_read + 1,
                                  ![t].n_blocks = threads[t].n_blocks + 1,
                                  ![t].by = None]
    /\ UNCHANGED <<block_size, is_streaming, current_processor, audio_queue,
                   stream_thread, n_threads, ctl_pc, ctl_ops, ctl_call, starts, stops,
                   last_join, stop_report, consumed, last_get>>
    /\ UNCHANGED <<compVars, apiVars, execVars>>

\* if self.current_processor:
TestProcessor(t) ==
    /\ threads[t].pc = "test"
    /\ threads' = [threads EXCEPT
                      ![t].pc = IF current_processor # None THEN "call" ELSE "put",
                      ![t].tested = current_processor]
    /\ UNCHANGED <<block_size, is_streaming, current_processor, audio_queue,
                   stream_thread, n_threads, ctl_pc, ctl_ops, ctl_call, starts, stops,
                   last_join, stop_report, n_read, consumed, last_get>>
    /\ UNCHANGED <<compVars, apiVars, execVars>>

\* self.current_processor(...): the attribute is read again and called;
\* calling None raises TypeError, which ends the thread
CallProcessor(t) ==
    /\ threads[t].pc = "call"
    /\ threads' = [threads EXCEPT
                      ![t].callee = current_processor,
                      ![t].pc = IF current_processor = None THEN "failed"
                                                            ELSE "in_call",
                      ![t].error = IF current_processor = None THEN "TypeError"
                                                               ELSE None]
    /\ UNCHANGED <<block_size, is_streaming, current_processor, audio_queue,
                   stream_thread, n_threads, ctl_pc, ctl_ops, ctl_call, starts, stops,
                   last_join, stop_report, n_read, consumed, last_get>>
    /\ UNCHANGED <<compVars, apiVars, execVars>>

\* the call returns: chunk = processed_chunk.flatten()
ProcessorReturns(t) ==
    /\ threads[t].pc = "in_call"
    /\ threads' = [threads EXCEPT ![t].pc = "put", ![t].by = threads[t].callee]
    /\ UNCHANGED <<block_size, is_streaming, current_processor, audio_queue,
                   stream_thread, n_threads, ctl_pc, ctl_ops, ctl_call, starts, stops,
                   last_join, stop_report, n_read, consumed, last_get>>
    /\ UNCHANGED <<compVars, apiVars, execVars>>

\* the call raises: nothing in the loop catches it, the thread ends
ProcessorRaises(t) ==
    /\ threads[t].pc = "in_call"
    /\ threads' = [threads EXCEPT ![t].pc = "failed", ![t].error = "Exception"]
    /\ UNCHANGED <<block_size, is_streaming, current_processor, audio_queue,
                   stream_thread, n_threads, ctl_pc, ctl_ops, ctl_call, starts, stops,
                   last_join, stop_report, n_read, consumed, last_get>>
    /\ UNCHANGED <<compVars, apiVars, execVars>>

\* Queue.put blocks only while maxsize > 0 and the queue holds maxsize items
PutBlocks == queue_maxsize > 0 /\ Len(audio_queue) >= queue_maxsize

\* self.audio_queue.put(chunk.copy())
QueuePut(t) ==
    /\ threads[t].pc = "put"
    /\ ~PutBlocks
    /\ audio_queue' = Append(audio_queue,
                             [seq |-> threads[t].seq, thread |-> t,
                              samples |-> threads[t].chunk, by |-> threads[t].by])
    /\ threads' = [threads EXCEPT ![t].pc = "sleep"]
    /\ UNCHANGED <<block_size, is_streaming, current_processor, stream_thread,
                   n_threads, ctl_pc, ctl_ops, ctl_call, starts, stops, last_join, stop_report, n_read,
                   consumed, last_get>>
    /\ UNCHANGED <<compVars, apiVars, execVars>>

\* time.sleep(self.block_size / self.sample_rate) returns
SleepDone(t) ==
    /\ threads[t].pc = "sleep"
    /\ threads' = [threads EXCEPT ![t].pc = "loop"]
    /\ UNCHANGED <<block_size, is_streaming, current_processor, audio_queue,
                   stream_thread, n_threads, ctl_pc, ctl_ops, ctl_call, starts, stops,
                   last_join, stop_report, n_read, consumed, last_get>>
    /\ UNCHANGED <<compVars, apiVars, execVars>>

(***************************************************************************)
(* The consumer: self.audio_queue.get(timeout=1.0)                         *)
(***************************************************************************)
QueueGet ==
    /\ audio_queue # <<>>
    /\ consumed' = Append(consumed, Head(audio_queue))
    /\ audio_queue' = Tail(audio_queue)
    /\ last_get' = "block"
    /\ UNCHANGED <<block_size, is_streaming, current_processor, stream_thread,
                   threads, n_threads, ctl_pc, ctl_ops, ctl_call, starts, stops, last_join,
                   stop_report, n_read>>
    /\ UNCHANGED <<compVars, apiVars, execVars>>

\* the queue stayed empty for the whole timeout: queue.Empty
QueueGetEmpty ==
    /\ audio_queue = <<>>
    /\ last_get' = "Empty"
    /\ UNCHANGED <<block_size, is_streaming, current_processor, audio_queue,
                   stream_thread, threads, n_threads, ctl_pc, ctl_ops, ctl_call, starts,
                   stops, last_join, stop_report, n_read, consumed>>
    /\ UNCHANGED <<compVars, apiVars, execVars>>

(***************************************************************************)
(* __init__ with arguments of the caller's choice.  The one check is the   *)
(* assert on fft_size; 1.0/sample_rate divides by zero for sample_rate 0;  *)
(* hop_size is stored as given.                                            *)
(***************************************************************************)
NotBuilt == [outcome |-> "none", sample_rate |-> 0, fft_size |-> 0, hop_size |-> 0]

NoRange == [outcome |-> "none", band_idx |-> 0, low_freq |-> 0, high_freq |-> 0]

ApiInit ==
    /\ built = NotBuilt
    /\ range_call = NoRange

SampleRateInputs == {-sample_rate, 0, sample_rate}
FftSizeInputs == {fft_size \div 2, fft_size, 2 * fft_size}
HopSizeInputs == -1 .. fft_size + 1

ConstructOutcome(rate, size, hop) ==
    IF size # fft_size THEN "AssertionError"
    ELSE IF rate = 0 THEN "ZeroDivisionError"
    ELSE "constructed"

Construct ==
    /\ \E rate \in SampleRateInputs, size \in FftSizeInputs, hop \in HopSizeInputs :
          built' = [outcome |-> ConstructOutcome(rate, size, hop),
                    sample_rate |-> rate, fft_size |-> size, hop_size |-> hop]
    /\ range_call' = NoRange
    /\ UNCHANGED <<compVars, streamVars, execVars>>

(***************************************************************************)
(* get_frequency_range(band_idx).  freq_bins = rfftfreq(fft_size,          *)
(* 1/sample_rate) has fft_size // 2 + 1 entries, entry k being             *)
(* k * sample_rate / fft_size; indexing it accepts -len <= i < len.        *)
(***************************************************************************)
FreqBinsLen(size) == size \div 2 + 1

FreqBin(rate, size, i) ==
    Quot((IF i < 0 THEN i + FreqBinsLen(size) ELSE i) * rate, size)

FreqBinIndexOk(size, i) == i >= -FreqBinsLen(size) /\ i < FreqBinsLen(size)

GetFrequencyRange(rate, size, band_idx) ==
    IF \/ band_idx # 0 /\ ~FreqBinIndexOk(size, band_idx - 1)
       \/ band_idx < FreqBinsLen(size) - 1 /\ ~FreqBinIndexOk(size, band_idx + 1)
    THEN [outcome |-> "IndexError", band_idx |-> band_idx,
          low_freq |-> 0, high_freq |-> 0]
    ELSE [outcome |-> "returned",
          band_idx |-> band_idx,
          low_freq |-> IF band_idx = 0 THEN 0
                       ELSE FreqBin(rate, size, band_idx - 1),
          high_freq |-> IF band_idx >= FreqBinsLen(size) - 1 THEN Quot(rate, 2)
                        ELSE FreqBin(rate, size, band_idx + 1)]

RangeIndexInputs == -1 .. num_bands + 1

GetFrequencyRangeCall ==
    /\ built.outcome = "constructed"
    /\ \E band_idx \in RangeIndexInputs :
          range_call' = GetFrequencyRange(built.sample_rate, built.fft_size, band_idx)
    /\ UNCHANGED built
    /\ UNCHANGED <<compVars, streamVars, execVars>>

(***************************************************************************)
(* LPMDExecutor.__init__: no cells, an empty namespace, an empty order.    *)
(***************************************************************************)
ExecInit ==
    /\ cells = <<>>
    /\ global_namespace = {}
    /\ execution_order = <<>>
    /\ n_files = 0
    /\ exec_call = "__init__"
    /\ exec_ret = "None"
    /\ started = <<>>
    /\ raised_in = {}
    /\ cells_before = <<>>
    /\ namespace_before = {}
    /\ order_before = <<>>

(***************************************************************************)
(* The .lpmd files the model parses: up to three cells a, b, c in any      *)
(* order, each with a depends: list of up to MaxDeps names.  A name that   *)
(* the file has no cell for is a missing dependency.                       *)
(***************************************************************************)
MaxDeps == 2
MaxFiles == 1

CellIds == {"a", "b", "c"}

SeqsUpTo(S, n) == UNION {[1 .. k -> S] : k \in 0 .. n}

DepLists == SeqsUpTo(CellIds, MaxDeps)

\* the cell ids of a file, in the order of its markers
IdOrders ==
    {o \in SeqsUpTo(CellIds, Cardinality(CellIds)) :
        /\ o # <<>>
        /\ \A i, j \in DOMAIN o : i # j => o[i] # o[j]}

\* Cell(id=cell_id, code=code, dependencies=dependencies, ...): executed False
Cell(cell_id, dependencies) ==
    [id |-> cell_id, dependencies |-> dependencies, executed |-> FALSE]

HasCell(cs, cell_id) == \E i \in DOMAIN cs : cs[i].id = cell_id

IndexOf(cs, cell_id) == CHOOSE i \in DOMAIN cs : cs[i].id = cell_id

\* self.cells[cell_id] = cell: a key the dict has keeps its place
PutCell(cs, cell) ==
    IF HasCell(cs, cell.id)
    THEN [cs EXCEPT ![IndexOf(cs, cell.id)] = cell]
    ELSE Append(cs, cell)

RECURSIVE PutCells(_, _, _, _)
PutCells(cs, order, deps, i) ==
    IF i > Len(order) THEN cs
    ELSE PutCells(PutCell(cs, Cell(order[i], deps[i])), order, deps, i + 1)

\* parse_lpmd_file(filepath): False for a file that is not there, else the
\* cells of the file are put into self.cells
ParseLpmdFile ==
    /\ n_files < MaxFiles
    /\ \/ /\ cells' = cells
          /\ exec_ret' = "False"
       \/ /\ \E order \in IdOrders : \E deps \in [DOMAIN order -> DepLists] :
                cells' = PutCells(cells, order, deps, 1)
          /\ exec_ret' = "True"
    /\ n_files' = n_files + 1
    /\ exec_call' = "parse_lpmd_file"
    /\ started' = <<>>
    /\ raised_in' = {}
    /\ cells_before' = cells
    /\ namespace_before' = global_namespace
    /\ order_before' = execution_order
    /\ UNCHANGED <<global_namespace, execution_order>>
    /\ UNCHANGED <<compVars, streamVars, apiVars>>

(***************************************************************************)
(* resolve_execution_order(): Kahn's algorithm over graph (the set of each *)
(* cell's dependencies) and in_degree (the length of each cell's list).    *)
(***************************************************************************)
\* set(cell.dependencies)
Graph(cell) == {cell.dependencies[i] : i \in DOMAIN cell.dependencies}

\* an in_degree that starts at 0 for every cell
InDegreeZero(cell) == 0

\* len(cell.dependencies)
InDegree(cell) == Len(cell.dependencies)

\* [cell_id for cell_id, degree in in_degree.items() if degree == 0]
RECURSIVE ZeroDegree(_, _, _)
ZeroDegree(cs, in_degree, i) ==
    IF i > Len(cs) THEN <<>>
    ELSE (IF in_degree[i] = 0 THEN <<cs[i].id>> ELSE <<>>)
            \o ZeroDegree(cs, in_degree, i + 1)

\* for cell_id, deps in graph.items(): st = [queue, in_degree]
RECURSIVE KahnScan(_, _, _, _)
KahnScan(cs, current, i, st) ==
    IF i > Len(cs) THEN st
    ELSE IF current \in Graph(cs[i])
    THEN KahnScan(cs, current, i + 1,
                  [in_degree |-> [st.in_degree EXCEPT ![i] = @ - 1],
                   queue |-> IF st.in_degree[i] - 1 = 0
                             THEN Append(st.queue, cs[i].id)
                             ELSE st.queue])
    ELSE KahnScan(cs, current, i + 1, st)

\* while queue: current = queue.pop(0); result.append(current); ...
RECURSIVE KahnLoop(_, _, _)
KahnLoop(cs, st, result) ==
    IF st.queue = <<>> THEN result
    ELSE KahnLoop(cs,
                  KahnScan(cs, Head(st.queue), 1,
                           [in_degree |-> st.in_degree, queue |-> Tail(st.queue)]),
                  Append(result, Head(st.queue)))

KahnStart(cs, in_degree) ==
    KahnLoop(cs, [in_degree |-> in_degree, queue |-> ZeroDegree(cs, in_degree, 1)],
             <<>>)

KahnResult(cs) == KahnStart(cs, [i \in DOMAIN cs |-> InDegree(cs[i])])

ResolveExecutionOrder ==
    /\ \E result \in {KahnResult(cells)} :
          IF Len(result) # Len(cells)
          THEN /\ exec_ret' = "False"
               /\ execution_order' = execution_order
          ELSE /\ exec_ret' = "True"
               /\ execution_order' = result
    /\ exec_call' = "resolve_execution_order"
    /\ started' = <<>>
    /\ raised_in' = {}
    /\ cells_before' = cells
    /\ namespace_before' = global_namespace
    /\ order_before' = execution_order
    /\ UNCHANGED <<cells, global_namespace, n_files>>
    /\ UNCHANGED <<compVars, streamVars, apiVars>>

(***************************************************************************)
(* execute_all() and the execute_cell() it calls.  What a cell's code does *)
(* is the cell's to decide: it returns, it raises an Exception, or it      *)
(* raises something that is not one (SystemExit from sys.exit(),           *)
(* KeyboardInterrupt), which `except Exception` lets through.              *)
(***************************************************************************)
Outcomes == {"returns", "Exception", "SystemExit"}

Executed(cs, cell_id) == HasCell(cs, cell_id) /\ cs[IndexOf(cs, cell_id)].executed

\* the loop of execute_all from position i on; st.ret is "None" while it runs
RECURSIVE ExecuteFrom(_, _, _, _)
ExecuteFrom(order, outcome, i, st) ==
    IF i > Len(order)
    THEN [st EXCEPT !.ret = IF st.success_count = Len(st.cells)
                            THEN "True" ELSE "False"]
    ELSE IF \E dep \in Graph(st.cells[IndexOf(st.cells, order[i])]) :
               ~HasCell(st.cells, dep)
    THEN [st EXCEPT !.ret = "raised"]
    ELSE IF \E dep \in Graph(st.cells[IndexOf(st.cells, order[i])]) :
               ~Executed(st.cells, dep)
    THEN [st EXCEPT !.ret = "False"]
    ELSE IF outcome[order[i]] = "returns"
    THEN ExecuteFrom(order, outcome, i + 1,
            [st EXCEPT !.cells[IndexOf(st.cells, order[i])].executed = TRUE,
                       !.global_namespace = @ \cup {order[i]},
                       !.started = Append(@, order[i]),
                       !.success_count = @ + 1])
    ELSE [st EXCEPT !.started = Append(@, order[i]),
                    !.raised_in = @ \cup {order[i]},
                    !.ret = IF outcome[order[i]] = "Exception"
                            THEN "False" ELSE "raised"]

ExecuteAll ==
    /\ \E outcome \in [CellIds -> Outcomes] :
       \E r \in {ExecuteFrom(execution_order, outcome, 1,
                              [cells |-> cells,
                               global_namespace |-> global_namespace,
                               started |-> <<>>, raised_in |-> {},
                               success_count |-> 0, ret |-> "None"])} :
          /\ cells' = r.cells
          /\ global_namespace' = r.global_namespace
          /\ started' = r.started
          /\ raised_in' = r.raised_in
          /\ exec_ret' = r.ret
    /\ exec_call' = "execute_all"
    /\ cells_before' = cells
    /\ namespace_before' = global_namespace
    /\ order_before' = execution_order
    /\ UNCHANGED <<execution_order, n_files>>
    /\ UNCHANGED <<compVars, streamVars, apiVars>>

(***************************************************************************)
(* The specifications: the compressor alone, the engine alone, and so on.  *)
(***************************************************************************)
CompNext ==
    \/ ForwardCall /\ UNCHANGED <<streamVars, apiVars, execVars>>
    \/ SetBandParametersCall /\ UNCHANGED <<streamVars, apiVars, execVars>>

\* the engine as constructed, never started
StreamIdle == StreamInit /\ block_size = 1

InitComp == CompInit /\ StreamIdle /\ ApiInit /\ ExecInit

SpecComp == InitComp /\ [][CompNext]_vars

StreamNext ==
    \/ StartAudioStream
    \/ StopAudioStream
    \/ JoinReturns
    \/ JoinTimesOut
    \/ SetProcessor
    \/ \E t \in Threads :
          \/ LoopExit(t)
          \/ LoopRead(t)
          \/ TestProcessor(t)
          \/ CallProcessor(t)
          \/ ProcessorReturns(t)
          \/ ProcessorRaises(t)
          \/ QueuePut(t)
          \/ SleepDone(t)
    \/ QueueGet
    \/ QueueGetEmpty

\* the compressor as constructed with its defaults, never called
CompIdle ==
    /\ CompInit
    /\ hop_size = 1
    /\ attack_coeff = Unit
    /\ ratio = [k \in Bands |-> 4]

Init == CompIdle /\ StreamInit /\ ApiInit /\ ExecInit

Spec == Init /\ [][StreamNext]_vars

\* The gain curve and the follower on their own.
CurveNext ==
    \/ ComputeGainReductionCall /\ UNCHANGED <<streamVars, apiVars, execVars>>
    \/ ApplyAttackReleaseCall /\ UNCHANGED <<streamVars, apiVars, execVars>>

InitCurve == CurveInit /\ StreamIdle /\ ApiInit /\ ExecInit

SpecCurve == InitCurve /\ [][CurveNext]_vars

\* forward() and process_with_intermediates() in any order, on a compressor
\* built with ratio 4.
DiagNext ==
    \/ ForwardCall /\ UNCHANGED <<streamVars, apiVars, execVars>>
    \/ ProcessWithIntermediatesCall /\ UNCHANGED <<streamVars, apiVars, execVars>>

InitDiag ==
    /\ CompInit
    /\ ratio = [k \in Bands |-> 4]
    /\ StreamIdle
    /\ ApiInit
    /\ ExecInit

SpecDiag == InitDiag /\ [][DiagNext]_vars

\* The executor: parse, resolve and execute in any order.
ExecNext ==
    \/ ParseLpmdFile
    \/ ResolveExecutionOrder
    \/ ExecuteAll

InitExec == CompIdle /\ StreamIdle /\ ApiInit /\ ExecInit

SpecExec == InitExec /\ [][ExecNext]_vars

\* Construction and the frequency ranges of what was built.
ApiNext ==
    \/ Construct
    \/ GetFrequencyRangeCall

InitApi == CompIdle /\ StreamIdle /\ ApiInit /\ ExecInit

SpecApi == InitApi /\ [][ApiNext]_vars

\* the steps of _simulate_streaming that are the thread's own: everything but
\* the end of a processor call, which is the processor's to decide
ThreadStep(t) ==
    \/ LoopExit(t)
    \/ LoopRead(t)
    \/ TestProcessor(t)
    \/ CallProcessor(t)
    \/ QueuePut(t)
    \/ SleepDone(t)

\* The engine with its threads scheduled and the join timer running; a
\* processor call may last for ever.
SpecStuck ==
    /\ Init
    /\ [][StreamNext]_vars
    /\ WF_vars(JoinReturns \/ JoinTimesOut)
    /\ \A t \in Threads : WF_vars(ThreadStep(t))

\* The same, with every processor call coming to an end.
SpecReturning ==
    /\ Init
    /\ [][StreamNext]_vars
    /\ WF_vars(JoinReturns \/ JoinTimesOut)
    /\ \A t \in Threads : WF_vars(ThreadStep(t))
    /\ \A t \in Threads : WF_vars(ProcessorReturns(t) \/ ProcessorRaises(t))

(***************************************************************************)
(* Properties of the compressor, checked under SpecComp.                   *)
(***************************************************************************)
SameShape(a, b) ==
    /\ Len(a) = Len(b)
    /\ \A i \in DOMAIN a :
          /\ Len(a[i]) = Len(b[i])
          /\ \A j \in DOMAIN a[i] : DOMAIN a[i][j] = DOMAIN b[i][j]

\* the last forward() allocated the envelope: it was None, or the block's
\* batch or channel count differed from the envelope's
Allocated ==
    /\ calls >= 1
    /\ \/ env_before = <<>>
       \/ Len(env_before) # BatchSize(in_audio)
       \/ Len(env_before[1]) # NumChannels(in_audio)

\* C1: when forward() allocates or re-allocates the envelope, the envelope its
\* first frame starts from is linear gain 1 (no reduction) in every
\* (batch, channel, bin) entry.
C1_FreshEnvelopeIsUnity ==
    Allocated =>
        \A b \in DOMAIN env_start : \A c \in DOMAIN env_start[b] : \A k \in Bands :
            env_start[b][c][k] = Unit

\* C2: a forward() whose block has the batch and channel counts of the block
\* before it starts from exactly the envelope the call before it left, whatever
\* the two time lengths; and nothing but forward() changes the envelope.
C2_EnvelopePersists ==
    [][/\ (/\ calls' = calls + 1
           /\ calls >= 1
           /\ BatchSize(in_audio') = BatchSize(in_audio)
           /\ NumChannels(in_audio') = NumChannels(in_audio))
          => env_start' = envelope
       /\ calls' = calls => envelope' = envelope]_vars

\* a second call of the same shape that yields no frame and starts from the
\* envelope, not all zero, that the first call left
C2_Witness ==
    /\ calls = 2
    /\ last_op = "forward"
    /\ frame_starts = <<>>
    /\ env_before # <<>>
    /\ Len(env_before) = BatchSize(in_audio)
    /\ Len(env_before[1]) = NumChannels(in_audio)
    /\ env_start = env_before
    /\ envelope = env_before
    /\ \E b \in DOMAIN env_before : \E c \in DOMAIN env_before[b] : \E k \in Bands :
          env_before[b][c][k] > 0

\* C3: forward() returns a block of the shape of its input, for every batch
\* and channel count and every time length from 0 up.
C3_ShapePreserved == calls >= 1 => SameShape(out_audio, in_audio)

\* a (2, 2, 5) block through a compressor of hop 3: padded to 6, one frame
C3_Witness ==
    /\ calls >= 1
    /\ hop_size = 3
    /\ BatchSize(in_audio) = 2
    /\ NumChannels(in_audio) = 2
    /\ TimeLength(in_audio) = 5
    /\ frame_starts = <<0>>
    /\ SameShape(out_audio, in_audio)

\* one 3.01 dB step of the model's levels, as a share of a sample: sqrt(2) - 1
Tolerance(x) == Quot(Abs(x) * 106, 256) + 2

\* C4: with ratio 1 in every bin and no makeup gain, forward() returns its
\* input: every output sample is the input sample, within tolerance.
C4_Reconstruction ==
    (/\ last_op = "forward"
     /\ \A k \in Bands : ratio[k] = 1 /\ makeup_gain_db[k] = 0)
    => \A b \in DOMAIN in_audio : \A c \in DOMAIN in_audio[b] :
          \A n \in DOMAIN in_audio[b][c] :
             /\ ~IsNaN(out_audio[b][c][n])
             /\ Abs(out_audio[b][c][n] - in_audio[b][c][n])
                   <= Tolerance(in_audio[b][c][n])

(***************************************************************************)
(* Properties of the engine, checked under Spec.                           *)
(***************************************************************************)
\* no stop_audio_stream() call has been made
NeverStopped == stops = 0 /\ ctl_pc = "idle" /\ ctl_call # "stop"

\* C5: start on a streaming engine changes nothing and launches no thread, so
\* starts with no stop between them leave exactly one thread; stop on an idle
\* engine launches nothing and leaves it idle.
C5_StartStopReentrant ==
    [][/\ (starts' = starts + 1 /\ is_streaming)
          => UNCHANGED <<is_streaming, current_processor, audio_queue,
                         stream_thread, threads, n_threads>>
       /\ (starts' >= 1 /\ NeverStopped') => n_threads' = 1
       /\ (ctl_ops' = ctl_ops + 1 /\ ctl_call' = "stop" /\ ~is_streaming)
          => (~is_streaming' /\ UNCHANGED <<threads, n_threads, stream_thread>>)
       /\ (ctl_pc = "join" /\ ctl_pc' = "idle")
          => UNCHANGED <<is_streaming, threads, n_threads, stream_thread>>]_vars

\* two starts in a row, no stop: one thread
C5_Witness ==
    /\ starts = 2
    /\ ctl_ops = 2
    /\ NeverStopped
    /\ is_streaming
    /\ n_threads = 1

\* C6: at most one thread is in the streaming loop, and at most one thread is
\* inside the processor.
C6_SingleProducer ==
    /\ Cardinality({t \in Threads : Alive(t)}) <= 1
    /\ Cardinality({t \in Threads : threads[t].pc = "in_call"}) <= 1

\* C7: when the processor raises in the producer's call, the engine goes idle:
\* it is never streaming while its producer thread is dead of that exception.
C7_FailureSurfaced ==
    \A t \in Threads :
       (t = stream_thread /\ threads[t].error = "Exception")
       => (threads[t].pc = "failed" /\ ~is_streaming)

\* C8: the queue is bounded and a full queue blocks the producer: the queue
\* never holds every block that the producers were able to read.
C8_QueueBounded == Len(audio_queue) < MaxBlocks

\* C9: an iteration calls the processor it tested, and a set_processor during
\* the iteration never makes it fail.
C9_ProcessorReadOnce ==
    \A t \in Threads :
       /\ threads[t].pc = "in_call" => threads[t].callee = threads[t].tested
       /\ threads[t].error # "TypeError"

\* C10: the k-th block the consumer takes is the k-th block read from the
\* source.
C10_ProductionOrder ==
    \A k \in 1 .. Len(consumed) : consumed[k].seq = k

\* the last controller call was stop_audio_stream(), and it has returned
StopReturned == ctl_call = "stop" /\ ctl_pc = "idle"

\* C11: once stop_audio_stream() has returned, a get(timeout) gives no block.
C11_NoDataAfterStop ==
    [][StopReturned => consumed' = consumed]_vars

\* C12: stop_audio_stream() always returns: a stop that waits in join leaves
\* it, even when the producer is in a processor call that never ends.
C12_StopReturns == (ctl_pc = "join") ~> (ctl_pc = "idle")

\* stop has returned while the thread it joined is still inside the processor
C12_Witness ==
    /\ StopReturned
    /\ last_join = "timeout"
    /\ threads[stream_thread].pc = "in_call"

\* C13: a stop whose join timed out tells its caller so: what it reports is
\* not what a clean stop reports.
C13_JoinFailureReported ==
    (ctl_pc = "idle" /\ last_join = "timeout")
    => stop_report # "Audio stream stopped"

C15_LoopingSource ==
    \A t \in Threads :
       /\ threads[t].pos \in 0 .. SourceLen
       /\ threads[t].n_blocks >= 1 =>
             /\ Len(threads[t].chunk) = block_size
             /\ \A i \in 1 .. block_size :
                   threads[t].chunk[i]
                      = test_audio[((threads[t].n_blocks - 1) * block_size + i - 1)
                                      % SourceLen]

\* the second block of a thread wraps round the end of a source of 3 samples
C15_Witness ==
    \E t \in Threads :
       /\ block_size = 2
       /\ threads[t].n_blocks = 2
       /\ threads[t].chunk = <<2, 0>>
       /\ threads[t].pos = 1

(***************************************************************************)
(* Framing, checked under SpecComp.                                        *)
(***************************************************************************)
\* C16: forward() pads T to P = T + ((hop - T mod hop) mod hop), a multiple
\* of hop, and its loop visits exactly the starts 0, hop, 2 hop, ... with
\* s + N <= P, in increasing order; for T = 0 it visits none and returns an
\* empty block.
C16_Framing ==
    calls >= 1 =>
       LET T == TimeLength(in_audio)
           P == T + ((hop_size - (T % hop_size)) % hop_size)
       IN  /\ P % hop_size = 0
           /\ \A i \in 1 .. Len(frame_starts) :
                 /\ frame_starts[i] = (i - 1) * hop_size
                 /\ frame_starts[i] + fft_size <= P
           /\ Len(frame_starts) * hop_size + fft_size > P
           /\ T = 0 => (frame_starts = <<>> /\ TimeLength(out_audio) = 0)

\* a block of 5 samples at hop 2: padded to 6, frames at 0 and 2, the second
\* ending exactly at the padded length
C16_Witness ==
    /\ calls >= 1
    /\ hop_size = 2
    /\ TimeLength(in_audio) = 5
    /\ frame_starts = <<0, 2>>

\* C17: for T >= 1 every sample index in [0, T) lies inside at least one
\* frame that forward() analysed.
C17_EverySampleAnalysed ==
    (calls >= 1 /\ TimeLength(in_audio) >= 1) =>
       \A n \in 0 .. TimeLength(in_audio) - 1 :
          \E i \in 1 .. Len(frame_starts) :
             frame_starts[i] <= n /\ n < frame_starts[i] + fft_size

(***************************************************************************)
(* The gain curve and the follower, checked under SpecCurve.               *)
(***************************************************************************)
\* (level - threshold) * (1 - 1/ratio) above the threshold, 0 below it
HardKneeReference(level, thr, r) ==
    IF level < thr THEN 0 ELSE Quot((level - thr) * (r - 1), r)

\* t^2 * (level - threshold) * (1 - 1/ratio), t = clamp((level - start)/knee, 0, 1),
\* inside [threshold - knee/2, threshold + knee/2] of a band with knee > 0;
\* the hard-knee value anywhere else
ReductionReference(level, thr, r, knee) ==
    IF knee > 0 /\ 2 * level >= 2 * thr - knee /\ 2 * level <= 2 * thr + knee
    THEN LET num == 2 * level - (2 * thr - knee)
             den == 2 * knee
             t == IF num < 0 THEN 0 ELSE IF num > den THEN den ELSE num
         IN  (t * t * (level - thr) * (r - 1)) \div (den * den * r)
    ELSE HardKneeReference(level, thr, r)

\* C18: in every band the computed gain reduction is a number, and it is the
\* reference value for that band's own threshold, ratio and knee width,
\* whatever the knee widths of the other bands.
C18_GainCurve ==
    reduction_out # <<>> =>
       \A k \in Bands :
          /\ ~IsNaN(reduction_out[k])
          /\ reduction_out[k]
                = ReductionReference(level_in, threshold_db[k], ratio[k],
                                     knee_width_db[k])

\* C19: at a level above the threshold, of two bands with the same threshold
\* and knee width the one with the larger ratio is reduced at least as much.
C19_MonotoneInRatio ==
    reduction_out # <<>> =>
       \A j \in Bands : \A k \in Bands :
          (/\ level_in > threshold_db[j]
           /\ threshold_db[j] = threshold_db[k]
           /\ knee_width_db[j] = knee_width_db[k]
           /\ ratio[j] <= ratio[k])
          => reduction_out[j] <= reduction_out[k]

\* inside the soft knee, above the threshold, ratio 2 is reduced less than
\* ratio 4; and so are two hard-knee bands
C19_Witness ==
    /\ reduction_out # <<>>
    /\ level_in > threshold_db[0]
    /\ \E j \in Bands : \E k \in Bands :
          /\ knee_width_db[j] > 0 /\ knee_width_db[k] = knee_width_db[j]
          /\ 2 * level_in < 2 * threshold_db[j] + knee_width_db[j]
          /\ ratio[j] < ratio[k]
          /\ reduction_out[j] < reduction_out[k]

\* C20: the follower moves each entry by coeff * (target - state), with the
\* attack coefficient when the target is below the state and the release
\* coefficient otherwise; the new state is a number between the old state
\* and the target, and is the target when the coefficient is 1.
C20_Follower ==
    last_op = "_apply_attack_release" =>
       \A k \in Bands :
          LET state == follower_from[k]
              target == IF IsNaN(reduction_out[k]) THEN NaN
                        ELSE DbToLinear(-reduction_out[k])
              coeff == IF target < state THEN attack_coeff ELSE release_coeff
              new == envelope[1][1][k]
          IN  /\ ~IsNaN(new)
              /\ new = state + Quot(coeff * (target - state), Unit)
              /\ (state <= new /\ new <= target) \/ (target <= new /\ new <= state)
              /\ coeff = Unit => new = target

(***************************************************************************)
(* set_band_parameters, checked under SpecComp.                            *)
(***************************************************************************)
\* tensor `after` is tensor `before` with the value written at band i if the
\* argument `name` was given, and is `before` otherwise
WrittenOnlyAt(before, after, i, name, args) ==
    /\ name \in args.given => after[i] = args[name]
    /\ name \notin args.given => after[i] = before[i]
    /\ \A j \in Bands : j # i => after[j] = before[j]

\* C21: set_band_parameters(i, ...) with i a band writes each argument given
\* at band i of its tensor, so that reading it back gives the argument, and
\* changes nothing else: no other band, no parameter that was not given, and
\* not the envelope.
C21_SetReadBack ==
    [][(sets' = sets + 1 /\ set_args'.band_idx \in Bands) =>
          /\ last_op' = "set_band_parameters"
          /\ WrittenOnlyAt(threshold_db, threshold_db', set_args'.band_idx,
                           "threshold_db", set_args')
          /\ WrittenOnlyAt(ratio, ratio', set_args'.band_idx, "ratio", set_args')
          /\ WrittenOnlyAt(makeup_gain_db, makeup_gain_db', set_args'.band_idx,
                           "makeup_gain_db", set_args')
          /\ WrittenOnlyAt(knee_width_db, knee_width_db', set_args'.band_idx,
                           "knee_width_db", set_args')
          /\ envelope' = envelope]_vars

\* after a forward() that left an envelope, the threshold of band 1 alone was
\* set to -8
C21_Witness ==
    /\ last_op = "set_band_parameters"
    /\ calls = 1
    /\ envelope # <<>>
    /\ set_args.band_idx = 1
    /\ set_args.given = {"threshold_db"}
    /\ threshold_db = (0 :> -4 @@ 1 :> -8 @@ 2 :> -4)
    /\ \A k \in Bands : knee_width_db[k] = 0 /\ makeup_gain_db[k] = 0

\* C22: set_band_parameters with an index outside 0 .. N/2 reports an error
\* and changes no parameter of any band (stated for the calls that give at
\* least one parameter to write).
C22_InvalidIndexRejected ==
    [][(/\ sets' = sets + 1
        /\ set_args'.band_idx \notin Bands
        /\ set_args'.given # {}) =>
          /\ last_op' = "set_band_parameters: IndexError"
          /\ UNCHANGED <<threshold_db, ratio, makeup_gain_db, knee_width_db>>]_vars

(***************************************************************************)
(* More of the engine (under Spec) and of the gain curve (under SpecCurve).*)
(***************************************************************************)
\* C29: once stop_audio_stream() has returned, and until the next
\* start_audio_stream(), nothing is added to the queue.
C29_NoPutWhileIdle ==
    [][(StopReturned /\ ctl_call' = "stop") =>
          Len(audio_queue') <= Len(audio_queue)]_vars

\* C30: for ratio >= 1 and knee width >= 0 the gain reduction of a band is
\* never negative, at any level, also inside the knee below the threshold
\* (stated for the reductions that are numbers).
C30_NeverBoosts ==
    (/\ reduction_out # <<>>
     /\ \A k \in Bands : ratio[k] >= 1 /\ knee_width_db[k] >= 0)
    => \A k \in Bands : ~IsNaN(reduction_out[k]) => reduction_out[k] >= 0

(***************************************************************************)
(* process_with_intermediates against forward, checked under SpecDiag.     *)
(***************************************************************************)
\* the block as the frame loop of the last call saw it
PaddedInput ==
    IF PadLength(TimeLength(in_audio), hop_size) > 0
    THEN Pad(in_audio, PadLength(TimeLength(in_audio), hop_size))
    ELSE in_audio

\* C25: process_with_intermediates returns the block and leaves the envelope
\* that forward() returns and leaves from the same parameters, envelope and
\* input, whatever the shape and length; what it captures is row [0, 0] of
\* the first frame, and nothing when there is no frame.
C25_SameProcessing ==
    last_op = "process_with_intermediates" =>
        \E r \in {Forward(in_audio, env_before)} :
            /\ out_audio = r.output
            /\ envelope = r.envelope
            /\ IF r.frame_starts = <<>>
               THEN intermediates = NoIntermediates
               ELSE \E row \in {FrameRows(PaddedInput, r.env_start, 0)[1][1]} :
                       /\ intermediates.captured
                       /\ intermediates.fft_bands = row.magnitude
                       /\ intermediates.gain_curve_db = row.smoothed
                       /\ intermediates.compressed_fft = row.compressed_fft

\* a padded block of several frames, processed from an envelope that an
\* earlier call left behind
C25_Witness ==
    /\ last_op = "process_with_intermediates"
    /\ env_before # <<>>
    /\ ~NeedsAllocation(env_before, BatchSize(in_audio), NumChannels(in_audio))
    /\ Len(frame_starts) >= 2
    /\ PadLength(TimeLength(in_audio), hop_size) > 0

(***************************************************************************)
(* Properties of construction and of get_frequency_range, checked under    *)
(* SpecApi.                                                                *)
(***************************************************************************)
\* C23: an instance exists only for a configuration with sample_rate > 0,
\* 0 < hop_size <= fft_size and the supported fft_size; every other
\* constructor call fails.
C23_InvalidConfigRejected ==
    built.outcome = "constructed" =>
        /\ built.sample_rate > 0
        /\ built.hop_size > 0
        /\ built.hop_size <= built.fft_size
        /\ built.fft_size = fft_size

\* C24: for a bin k in 0..N/2 of a valid instance, twice the low boundary is
\* 0 for k = 0 and (2k - 1) * d otherwise, and twice the high boundary is
\* sample_rate for k = N/2 and (2k + 1) * d otherwise, d = sample_rate / N:
\* the boundaries are the midpoints between adjacent bin centres.
C24_Midpoints ==
    (/\ range_call.outcome = "returned"
     /\ range_call.band_idx \in Bands
     /\ built.sample_rate > 0
     /\ built.hop_size \in 1 .. built.fft_size)
    => LET k == range_call.band_idx
           d == built.sample_rate \div built.fft_size
       IN  /\ 2 * range_call.low_freq = (IF k = 0 THEN 0 ELSE (2 * k - 1) * d)
           /\ 2 * range_call.high_freq =
                 (IF k = num_bands - 1 THEN built.sample_rate ELSE (2 * k + 1) * d)

(***************************************************************************)
(* Properties of the executor, checked under SpecExec.                     *)
(***************************************************************************)
\* the position of a cell id in a list of ids, 0 if it is not there
Position(order, cell_id) ==
    IF \E j \in DOMAIN order : order[j] = cell_id
    THEN CHOOSE j \in DOMAIN order : order[j] = cell_id
    ELSE 0

\* C26: when resolve_execution_order() returned True, execution_order holds
\* every parsed cell exactly once, and every cell after all the cells it
\* depends on.
C26_TopologicalOrder ==
    (exec_call = "resolve_execution_order" /\ exec_ret = "True") =>
        /\ Len(execution_order) = Len(cells)
        /\ \A i \in DOMAIN cells :
              Cardinality({j \in DOMAIN execution_order :
                              execution_order[j] = cells[i].id}) = 1
        /\ \A i \in DOMAIN cells : \A dep \in Graph(cells[i]) :
              /\ Position(execution_order, dep) > 0
              /\ Position(execution_order, dep)
                    < Position(execution_order, cells[i].id)

\* three cells resolved into an order that is not the order of the file
C26_Witness ==
    /\ exec_call = "resolve_execution_order"
    /\ exec_ret = "True"
    /\ Len(cells) = 3
    /\ \E i \in DOMAIN cells : execution_order[i] # cells[i].id
    /\ \E i \in DOMAIN cells : Cardinality(Graph(cells[i])) = 2

\* every dependency names a parsed cell and the dependency graph has no cycle
Resolvable(cs) ==
    \E rank \in [DOMAIN cs -> DOMAIN cs] :
        \A i \in DOMAIN cs : \A dep \in Graph(cs[i]) :
            /\ HasCell(cs, dep)
            /\ rank[IndexOf(cs, dep)] < rank[i]

\* C27: resolve_execution_order() returns False, leaving execution_order as
\* it was, when the graph has a cycle or a dependency was not parsed, and
\* True for every cell set whose dependencies all exist and have no cycle,
\* a dependency list that names a cell twice included.
C27_ResolveOutcome ==
    exec_call = "resolve_execution_order" =>
        /\ exec_ret = "False" => execution_order = order_before
        /\ exec_ret = "True" <=> Resolvable(cells)

\* C28: execute_all() runs the cells in execution_order, starts a cell only
\* when all its dependencies have executed, stops at the first cell that
\* raises and returns False, with that cell's executed flag False and the
\* namespace holding nothing of it; it returns True only if every cell
\* executed.
C28_ExecuteAll ==
    exec_call = "execute_all" =>
        /\ \A i \in DOMAIN started :
              /\ i <= Len(execution_order)
              /\ started[i] = execution_order[i]
              /\ \A dep \in Graph(cells[IndexOf(cells, started[i])]) :
                    \/ Executed(cells_before, dep)
                    \/ \E j \in 1 .. i - 1 : started[j] = dep
        /\ raised_in # {} =>
              /\ exec_ret = "False"
              /\ raised_in = {started[Len(started)]}
              /\ \A c \in raised_in : ~Executed(cells, c)
        /\ global_namespace =
              namespace_before \cup
                 ({started[i] : i \in DOMAIN started} \ raised_in)
        /\ exec_ret = "True" => \A i \in DOMAIN cells : cells[i].executed

====
